---- MODULE Spec2Model ----
(***************************************************************************)
(* The FPL data warehouse: five independent extract-transform-load jobs.   *)
(*   dags/01_Bronze/01_FPL_raw_teams.py      -> bronze.teams_info          *)
(*   dags/01_Bronze/02_FPL_raw_players.py    -> bronze.players_info        *)
(*   dags/01_Bronze/03_FPL_raw_game_week.py  -> bronze.games_info          *)
(*   dags/01_Bronze/04_FPL_raw_stats.py      -> bronze.player_stats        *)
(*   dags/03_Gold/Python Scripts/10_FctTeamHistory.py -> MySQL FctTeamHistory *)
(* A behaviour follows ONE job (jobs share no state) through repeated runs *)
(* against one unchanged upstream response.  Each stage function of a job  *)
(* is one action; the outcome of an external call (HTTP request, engine    *)
(* creation, SQL statement) is chosen nondeterministically.                *)
(*                                                                         *)
(* Data representation.  A DataFrame / database table is a record          *)
(*   [cols : set of column names, rows : sequence of records, tcols : set  *)
(*    of columns holding parsed timestamps].                               *)
(* Numeric cells are integers; None stands for JSON null / a missing key / *)
(* NaN.  Timestamps (deadline_time, kickoff_time) are the integers 1, 2,   *)
(* ... standing for ISO-8601 strings of one format, whose lexicographic    *)
(* order (Python max/min on str) is the order of the integers.             *)
(***************************************************************************)
EXTENDS Integers, Sequences, FiniteSets, TLC

\* ---------------------------------------------------------------- bounds
MaxRows == 2      \* longest teams / elements / fixtures / view-row list

SeqsUpTo(S, n) == UNION {[1..k -> S] : k \in 0..n}

\* ------------------------------------------------------- python helpers
\* JSON null, dict.get() default, NaN
None == -1

\* max(dates) / min(dates) on a non-empty list
max(s) == CHOOSE m \in {s[i] : i \in DOMAIN s} : \A i \in DOMAIN s : s[i] <= m
min(s) == CHOOSE m \in {s[i] : i \in DOMAIN s} : \A i \in DOMAIN s : m <= s[i]

RECURSIVE SelectSeq2(_, _)
\* [x for x in s if x is truthy]: the list comprehension / append loop
SelectSeq2(s, keep) ==
    IF s = <<>> THEN <<>>
    ELSE IF Head(s) \in keep THEN <<Head(s)>> \o SelectSeq2(Tail(s), keep)
         ELSE SelectSeq2(Tail(s), keep)

\* ------------------------------------------------------ pandas helpers
\* pd.DataFrame()
EmptyFrame == [cols |-> {}, rows |-> <<>>, tcols |-> {}]

\* pd.DataFrame(data, columns=columns): exactly the named columns, a key a
\* dict lacks becomes NaN
DataFrame(data, columns) ==
    [cols  |-> columns,
     rows  |-> [i \in DOMAIN data |->
                  [c \in columns |-> IF c \in DOMAIN data[i] THEN data[i][c] ELSE None]],
     tcols |-> {}]

\* the new name of column c under a rename mapping (a record old |-> new)
NewName(mapping, c) == IF c \in DOMAIN mapping THEN mapping[c] ELSE c

\* Rename without inplace=True and without assignment: nothing is renamed
RenameNothing(df, mapping) == df

\* df.rename(columns=mapping, inplace=True): only the keys of mapping change
Rename(df, mapping) ==
    LET newcols == {NewName(mapping, c) : c \in df.cols}
        old(n)  == CHOOSE c \in df.cols : NewName(mapping, c) = n
    IN [cols  |-> newcols,
        rows  |-> [i \in DOMAIN df.rows |-> [n \in newcols |-> df.rows[i][old(n)]]],
        tcols |-> {NewName(mapping, c) : c \in df.tcols}]

\* df[col] = values: a new (or overwritten) column, values[i] for row i
WithColumn(df, col, values) ==
    [cols  |-> df.cols \cup {col},
     rows  |-> [i \in DOMAIN df.rows |->
                  [c \in df.cols \cup {col} |->
                      IF c = col THEN values[i] ELSE df.rows[i][c]]],
     tcols |-> df.tcols]

\* a scalar broadcast to every row of df
Broadcast(df, v) == [i \in DOMAIN df.rows |-> v]

\* df.empty
Empty(df) == df.rows = <<>> \/ df.cols = {}

\* ------------------------------------------------------------ settings
PgSettings == {"dbname", "user", "password", "host", "port"}
MySettings == {"ghost", "gport", "gdbname", "guser", "gpassword"}

\* all([os.getenv(s) for s in settings]) over the environment e
all(settings, e) == settings \subseteq e

\* ---------------------------------------------------------------- jobs
Jobs == {"teams", "players", "fixtures", "stats", "replication"}

\* the stage functions each entry point calls, in call order
main(j) ==
    CASE j = "teams"       -> <<"pull_data_from_api", "create_data_frame",
                                "add_photo_url", "upload_to_postgres">>
      [] j = "players"     -> <<"pull_data_from_api", "create_data_frame",
                                "add_player_image", "upload_to_postgres">>
      [] j = "fixtures"    -> <<"pull_data_from_api", "create_data_frame",
                                "upload_to_postgres">>
      [] j = "stats"       -> <<"pull_data_from_api", "join_dataframes",
                                "upload_to_postgres">>
      [] j = "replication" -> <<"fetch_data_from_postgres", "load_data_to_mysql">>

\* the stores a job's settings are read for
Stores(j) == IF j = "replication" THEN {"pg", "mysql"} ELSE {"pg"}
Settings(store) == IF store = "pg" THEN PgSettings ELSE MySettings
AllSettings(j) == UNION {Settings(s) : s \in Stores(j)}

\* environments a run may start in: complete, one setting missing, none set
EnvChoices(j) ==
    {AllSettings(j)} \cup {AllSettings(j) \ {s} : s \in AllSettings(j)} \cup {{}}

\* ----------------------------------------------------- stage results
\* a stage function returns a value, or raises exc after logging or not
Ok(v) == [ok |-> TRUE, value |-> v, exc |-> "none", logged |-> FALSE]
Err(e, l) == [ok |-> FALSE, value |-> <<>>, exc |-> e, logged |-> l]

\* ------------------------------------------- upstream payloads (inputs)
\* events of the bootstrap payload: deadline_time null/absent or a timestamp
Deadlines == {None, 1, 10}
Event(d) == [deadline_time |-> d]

\* events lists: none, only null deadlines, one date, dates out of order,
\* dates around a null one, the same date twice
EventLists == {<<>>, <<Event(None)>>, <<Event(None), Event(None)>>, <<Event(1)>>,
               <<Event(10), Event(1)>>, <<Event(1), Event(None), Event(10)>>,
               <<Event(10), Event(10)>>}

\* teams of the bootstrap payload; Liverpool under two codes, and one other
TeamItems ==
    {[id |-> 1, code |-> 3,  name |-> "Liverpool", short_name |-> "LIV"],
     [id |-> 1, code |-> 14, name |-> "Liverpool", short_name |-> "LIV"],
     [id |-> 2, code |-> 3,  name |-> "Arsenal",   short_name |-> "ARS"]}

\* elements (players) of the bootstrap payload; the last lacks "region"
ElementItems ==
    {[id |-> 7, first_name |-> "Mo", second_name |-> "Salah", web_name |-> "Salah",
      team_code |-> 14, team |-> 1, element_type |-> 3, code |-> 118748,
      region |-> 65, can_select |-> 1],
     [id |-> 8, first_name |-> "Bukayo", second_name |-> "Saka", web_name |-> "Saka",
      team_code |-> 3, team |-> 2, element_type |-> 3, code |-> 223340,
      region |-> 241, can_select |-> 0],
     [id |-> 9, first_name |-> "David", second_name |-> "Raya", web_name |-> "Raya",
      team_code |-> 3, team |-> 2, element_type |-> 1, code |-> 154561,
      can_select |-> 1]}

\* the JSON object of /api/bootstrap-static/: its keys and their values
Bootstrap(keys, events, teams, elements) ==
    [keys |-> keys, events |-> events, teams |-> teams, elements |-> elements]

\* bootstrap responses seen by the teams job
TeamsPayloads ==
    {Bootstrap({"teams"}, <<>>, t, <<>>) : t \in SeqsUpTo(TeamItems, 1)}
    \cup {Bootstrap({"events"}, e, <<>>, <<>>) : e \in EventLists}
    \cup {Bootstrap({"events", "teams"}, e, t, <<>>) :
            e \in EventLists, t \in SeqsUpTo(TeamItems, MaxRows)}

\* bootstrap responses seen by the players job
PlayersPayloads ==
    {Bootstrap({"elements"}, <<>>, <<>>, p) : p \in SeqsUpTo(ElementItems, 1)}
    \cup {Bootstrap({"events"}, e, <<>>, <<>>) : e \in EventLists}
    \cup {Bootstrap({"events", "elements"}, e, <<>>, p) :
            e \in EventLists, p \in SeqsUpTo(ElementItems, MaxRows)}

\* ------------------------------------ teams / players: pull_data_from_api
\* the part of pull_data_from_api after a successful request: collect the
\* truthy deadline_time values and return the payload with their min and max
SeasonDates(data) ==
    IF "events" \notin data.keys THEN Err("KeyError", FALSE)
    ELSE LET all_dates == [i \in DOMAIN data.events |-> data.events[i].deadline_time]
             dates == SelectSeq2(all_dates, Deadlines \ {None})
         IN IF dates = <<>> THEN Err("ValueError", FALSE)
            ELSE Ok([data |-> data, min_date |-> min(dates), max_date |-> max(dates)])

\* --------------------------------------------- teams: create_data_frame
TeamsSelected == {"id", "code", "name", "short_name"}
TeamsMapping == [id |-> "team_id", code |-> "team_code", name |-> "team_name",
                 short_name |-> "team_short_name"]

teams_create_data_frame(raw_data) ==
    LET data == raw_data.data IN
    IF data.keys = {} \/ "teams" \notin data.keys THEN Err("ValueError", FALSE)
    ELSE LET df1 == Rename(DataFrame(data.teams, TeamsSelected), TeamsMapping)
         IN Ok(WithColumn(WithColumn(df1, "min_kickoff", Broadcast(df1, raw_data.min_date)),
                          "max_kickoff", Broadcast(df1, raw_data.max_date)))

\* ------------------------------------------------- teams: add_photo_url
badge_base_url == "https://resources.premierleague.com/premierleague/badges/t"
liverpool_logo == "https://upload.wikimedia.org/wikipedia/en/thumb/0/0c/Liverpool_FC.svg/180px-Liverpool_FC.svg.png"

\* f"{base_url}{code}.png"
badge_url(code) == badge_base_url \o ToString(code) \o ".png"

\* liverpool_override selecting the rows by Liverpool's team code
liverpool_override_by_code(row) ==
    IF row.team_code = 14 THEN liverpool_logo ELSE row.logo_url

\* df.loc[df['team_name'] == 'Liverpool', 'logo_url'] = <literal>
liverpool_override(row) ==
    IF row.team_name = "Liverpool" THEN liverpool_logo ELSE row.logo_url

add_photo_url(df) ==
    LET df1 == WithColumn(df, "logo_url",
                          [i \in DOMAIN df.rows |-> badge_url(df.rows[i].team_code)])
    IN Ok(WithColumn(df1, "logo_url",
                     [i \in DOMAIN df1.rows |-> liverpool_override(df1.rows[i])]))

\* ------------------------------------------- players: create_data_frame
PlayersSelected == {"id", "first_name", "second_name", "web_name", "team_code",
                    "team", "element_type", "code", "region", "can_select"}
PlayersMapping == [id |-> "player_id", element_type |-> "player_position",
                   team |-> "team_id", code |-> "player_code"]

players_create_data_frame(raw_data) ==
    LET data == raw_data.data IN
    IF data.keys = {} \/ "elements" \notin data.keys THEN Err("ValueError", FALSE)
    ELSE LET df1 == Rename(DataFrame(data.elements, PlayersSelected), PlayersMapping)
         IN Ok(WithColumn(WithColumn(df1, "min_kickoff", Broadcast(df1, raw_data.min_date)),
                          "max_kickoff", Broadcast(df1, raw_data.max_date)))

\* --------------------------------------------- players: add_player_image
photo_base_url == "https://resources.premierleague.com/premierleague/photos/players/250x250/p"

\* df["player_code"].astype(str).apply(lambda code: f"{base_url}{code}.png")
photo_url(code) == photo_base_url \o ToString(code) \o ".png"

add_player_image(df) ==
    IF Empty(df) THEN Err("ValueError", FALSE)
    ELSE Ok(WithColumn(df, "photo_url",
                       [i \in DOMAIN df.rows |-> photo_url(df.rows[i].player_code)]))

\* ------------------------------------------- fixtures: create_data_frame
\* fixtures of /api/fixtures/ as the fixtures job reads them: a played one
\* (with a key the job does not select), an unplayed one (null week and
\* scores), and one lacking the difficulty keys.  kickoff_time is always set.
FixtureItems ==
    {[code |-> 2444470, event |-> 1, finished |-> 1, id |-> 1, kickoff_time |-> 1,
      team_a |-> 2, team_h |-> 1, team_a_score |-> 0, team_h_score |-> 2,
      team_a_difficulty |-> 3, team_h_difficulty |-> 4, minutes |-> 90],
     [code |-> 2444471, event |-> None, finished |-> 0, id |-> 2, kickoff_time |-> 10,
      team_a |-> 1, team_h |-> 2, team_a_score |-> None, team_h_score |-> None,
      team_a_difficulty |-> 2, team_h_difficulty |-> 5],
     [code |-> 2444472, event |-> 2, finished |-> 0, id |-> 3, kickoff_time |-> 10,
      team_a |-> 1, team_h |-> 2, team_a_score |-> None, team_h_score |-> None]}

FixturesPayloads == SeqsUpTo(FixtureItems, MaxRows)

FixturesSelected == {"code", "event", "finished", "id", "kickoff_time", "team_a",
                     "team_h", "team_a_score", "team_h_score", "team_a_difficulty",
                     "team_h_difficulty"}
FixturesMapping == [code |-> "game_code", event |-> "game_week_id", id |-> "game_id",
                    team_a |-> "team_id_a", team_h |-> "team_id_h",
                    team_a_difficulty |-> "difficulty_a",
                    team_h_difficulty |-> "difficulty_h"]

\* pd.DataFrame(data) of a list of dicts: the union of their keys
FrameColumns(data) == UNION {DOMAIN data[i] : i \in DOMAIN data}

\* df["kickoff_time"] = pd.to_datetime(df["kickoff_time"]): the column's
\* strings become timestamps of the same instants
to_datetime(df, col) == [df EXCEPT !.tcols = @ \cup {col}]

\* df.fillna(0, inplace=True)
fillna(df) ==
    [df EXCEPT !.rows = [i \in DOMAIN df.rows |->
        [c \in df.cols |-> IF df.rows[i][c] = None THEN 0 ELSE df.rows[i][c]]]]

fixtures_create_data_frame(data) ==
    IF data = <<>> THEN Err("ValueError", FALSE)
    ELSE IF ~(FixturesSelected \subseteq FrameColumns(data)) THEN Err("KeyError", TRUE)
    ELSE Ok(fillna(to_datetime(
                Rename(DataFrame(data, FixturesSelected), FixturesMapping),
                "kickoff_time")))

\* ------------------------------------- stats: extract_stats, join_dataframes
stats_list == <<"goals_scored", "own_goals", "yellow_cards", "red_cards", "assists",
                "penalties_saved", "penalties_missed", "saves", "bonus", "bps">>

Entry(e, v) == [element |-> e, value |-> v]

\* fixtures of /api/fixtures/?future=0 as the stats job reads them
StatFixtures ==
    {[code |-> 101, id |-> 1, finished |-> 1,
      stats |-> <<[identifier |-> "goals_scored", a |-> <<>>, h |-> <<Entry(10, 1)>>]>>],
     [code |-> 102, id |-> 2, finished |-> 0],
     [code |-> 103, id |-> 3, finished |-> 1,
      stats |-> <<[identifier |-> "goals_scored", a |-> <<Entry(11, 2)>>,
                   h |-> <<Entry(10, 1)>>],
                  [identifier |-> "bps", a |-> <<Entry(11, 20), Entry(12, 5)>>],
                  [identifier |-> "mng_win", a |-> <<>>, h |-> <<Entry(10, 1)>>]>>],
     [code |-> 104, id |-> 4, finished |-> 1, stats |-> <<>>],
     [code |-> 105, id |-> 5, finished |-> 1,
      stats |-> <<[identifier |-> "saves", a |-> <<>>, h |-> <<>>]>>]}

StatsPayloads == SeqsUpTo(StatFixtures, MaxRows)

\* d.get(key, default)
get(d, key, default) == IF key \in DOMAIN d THEN d[key] ELSE default

RECURSIVE Flatten(_)
\* the concatenation of a sequence of sequences, in order
Flatten(ss) == IF ss = <<>> THEN <<>> ELSE Head(ss) \o Flatten(Tail(ss))

\* BlockRows reading the home side only
BlockRowsHomeOnly(fixture, stat) ==
    LET entries == get(stat, "h", <<>>)
    IN [k \in DOMAIN entries |->
          [game_code  |-> get(fixture, "code", None),
           finished   |-> get(fixture, "finished", None),
           game_id    |-> get(fixture, "id", None),
           stat_value |-> get(entries[k], "value", None),
           player_id  |-> get(entries[k], "element", None),
           team_type  |-> "h"]]

\* the rows one stat block of one fixture appends, sides 'a' then 'h'
BlockRows(fixture, stat) ==
    LET side(team_type) ==
          LET entries == get(stat, team_type, <<>>)
          IN [k \in DOMAIN entries |->
                [game_code  |-> get(fixture, "code", None),
                 finished   |-> get(fixture, "finished", None),
                 game_id    |-> get(fixture, "id", None),
                 stat_value |-> get(entries[k], "value", None),
                 player_id  |-> get(entries[k], "element", None),
                 team_type  |-> team_type]]
    IN side("a") \o side("h")

\* the list extracted_details after the loops of extract_stats
ExtractedDetails(data, identifier) ==
    Flatten([f \in DOMAIN data |->
        LET stats == get(data[f], "stats", <<>>)
        IN Flatten([s \in DOMAIN stats |->
              IF get(stats[s], "identifier", "") = identifier
              THEN BlockRows(data[f], stats[s]) ELSE <<>>])])

StatColumns == {"game_code", "finished", "game_id", "stat_value", "player_id", "team_type"}

\* pd.DataFrame(extracted_details): no columns when the list is empty
extract_stats(data, identifier) ==
    IF data = <<>> THEN Err("ValueError", FALSE)
    ELSE LET rows == ExtractedDetails(data, identifier)
         IN Ok(IF rows = <<>> THEN EmptyFrame
               ELSE [cols |-> StatColumns, rows |-> rows, tcols |-> {}])

\* df_list: per catalogue statistic with rows, its frame with stat_type added
DfList(data) ==
    LET frame(i) == extract_stats(data, stats_list[i]).value
        typed(i) == WithColumn(frame(i), "stat_type", Broadcast(frame(i), stats_list[i]))
    IN Flatten([i \in DOMAIN stats_list |->
                  IF Empty(frame(i)) THEN <<>> ELSE <<typed(i)>>])

\* pd.concat(df_list, ignore_index=True)
concat(df_list) ==
    [cols  |-> UNION {df_list[i].cols : i \in DOMAIN df_list},
     rows  |-> Flatten([i \in DOMAIN df_list |-> df_list[i].rows]),
     tcols |-> {}]

join_dataframes(data) ==
    IF data = <<>> THEN Err("ValueError", FALSE)
    ELSE LET df_list == DfList(data)
         IN Ok(IF df_list = <<>> THEN EmptyFrame ELSE concat(df_list))

\* ------------------------------------------------- replication: the view
\* rows of gold.v_fct_team_history
ViewRows == {[team_id |-> 1, season |-> 2024, points |-> 3],
             [team_id |-> 2, season |-> 2024, points |-> 0]}
ViewColumns == {"team_id", "season", "points"}

\* pd.read_sql_query(query, engine) on a view holding rows
read_sql_query(rows) == [cols |-> ViewColumns, rows |-> rows, tcols |-> {}]

ViewContents == SeqsUpTo(ViewRows, MaxRows)

\* -------------------------------------------------------- the databases
\* a bronze table before the first load: absent, or left by an older load
NoTable == EmptyFrame
LegacyTable == [cols |-> {"legacy"}, rows |-> <<[legacy |-> 1]>>, tcols |-> {}]

\* MySQL FctTeamHistory exists with the view's schema: empty, or holding a
\* rows of an earlier replication
OldFact == [team_id |-> 9, season |-> 2023, points |-> 1]
FactTables ==
    {[cols |-> ViewColumns, rows |-> r, tcols |-> {}] :
        r \in {<<>>, <<OldFact>>, <<[team_id |-> 1, season |-> 2024, points |-> 3], OldFact>>}}

InitialTables(j) == IF j = "replication" THEN FactTables ELSE {NoTable, LegacyTable}

\* what the job's upstream source returns: the API response, or the view
Payloads(j) ==
    CASE j = "teams"       -> TeamsPayloads
      [] j = "players"     -> PlayersPayloads
      [] j = "fixtures"    -> FixturesPayloads
      [] j = "stats"       -> StatsPayloads
      [] j = "replication" -> ViewContents

\* to_sql_replace with if_exists='append': the frame's rows are added
to_sql_accumulate(tbl, frame) == [frame EXCEPT !.rows = tbl.rows \o @]

\* df.to_sql(name, engine, if_exists='replace'): the table becomes the frame
to_sql_replace(tbl, frame) == frame

\* df.to_sql(name, con, if_exists='append'): rows added, schema kept
to_sql_append(tbl, rows) == [tbl EXCEPT !.rows = @ \o rows]

\* connection.execute(text("TRUNCATE TABLE ...")): MySQL commits it at once
truncate(tbl) == [tbl EXCEPT !.rows = <<>>]

\* the name of the port setting of a store
PortOf(store) == IF store = "pg" THEN "port" ELSE "gport"

\* create_engine(url) opens no connection; it raises when the URL does not
\* parse (an unset port is the text "None") or the driver cannot be loaded
create_engine(store, e) ==
    IF PortOf(store) \notin e THEN {"error"} ELSE {"engine", "error"}

NoFailure == [exc |-> "none", at |-> "none"]

\* ------------------------------------------------------------- the state
VARIABLES
    job,       \* the job this behaviour follows
    api,       \* what its source returns: API response / rows of the gold view
    table,     \* its destination table
    env,       \* names of the settings that are set (os.environ after load_dotenv)
    pc,        \* "idle", "running", "done" (exit 0) or "failed" (exception escaped)
    executed,  \* stage functions called in this run, in order
    raw,       \* return value of the fetch stage
    df,        \* the frame handed from stage to stage
    engines,   \* stores with an engine created in this run and not disposed
    failure,   \* the exception that ended the run and the call that raised it
    logged,    \* the failing stage called logging.error before raising
    wrote,     \* a write statement was issued on the destination in this run
    unsafe,    \* stores an engine was created for while a setting was missing
    preTable,  \* the destination table when the run started
    prevOk     \* the run before this one ended in success

vars == <<job, api, table, env, pc, executed, raw, df, engines, failure, logged,
          wrote, unsafe, preTable, prevOk>>

Init ==
    /\ job \in Jobs
    /\ api \in Payloads(job)
    /\ table \in InitialTables(job)
    /\ env = AllSettings(job)
    /\ pc = "idle"
    /\ executed = <<>>
    /\ raw = <<>>
    /\ df = EmptyFrame
    /\ engines = {}
    /\ failure = NoFailure
    /\ logged = FALSE
    /\ wrote = FALSE
    /\ unsafe = {}
    /\ preTable = table
    /\ prevOk = FALSE

\* the interpreter starts the script: a fresh process, the environment read
StartRun ==
    /\ pc \in {"idle", "done", "failed"}
    /\ pc' = "running"
    /\ env' \in EnvChoices(job)
    /\ executed' = <<>>
    /\ raw' = <<>>
    /\ df' = EmptyFrame
    /\ engines' = {}
    /\ failure' = NoFailure
    /\ logged' = FALSE
    /\ wrote' = FALSE
    /\ unsafe' = {}
    /\ preTable' = table
    /\ prevOk' = (pc = "done")
    /\ UNCHANGED <<job, api, table>>

\* control is at the call of stage s in job j's entry point
At(j, s) ==
    /\ job = j
    /\ pc = "running"
    /\ Len(executed) < Len(main(j))
    /\ main(j)[Len(executed) + 1] = s

\* the stage returns: control moves to the next call, or the script ends
Return(s) ==
    /\ executed' = Append(executed, s)
    /\ pc' = IF Len(executed) + 1 = Len(main(job)) THEN "done" ELSE "running"
    /\ UNCHANGED <<failure, logged>>

\* Raise caught by the caller: the entry point carries on with the next call
RaiseSwallowed(s, exc, at, log) ==
    /\ executed' = Append(executed, s)
    /\ pc' = IF Len(executed) + 1 = Len(main(job)) THEN "done" ELSE "running"
    /\ failure' = [exc |-> exc, at |-> at]
    /\ logged' = log

\* the stage raises exc out of the call `at`: nothing in the entry point
\* catches it, the script dies
Raise(s, exc, at, log) ==
    /\ executed' = Append(executed, s)
    /\ pc' = "failed"
    /\ failure' = [exc |-> exc, at |-> at]
    /\ logged' = log

\* requests.get(url) + raise_for_status(): the response, or RequestException
Responses == {"ok", "RequestException"}

\* ------------------------------------------------ bronze loaders' writes
\* a failed to_sql(if_exists='replace') leaves the old table (no connection,
\* or all rolled back), has dropped it, or has recreated it with the frame's
\* columns and no rows (the INSERT failed after DROP and CREATE were committed)
AfterFailedReplace(tbl, frame) == {tbl, NoTable, [frame EXCEPT !.rows = <<>>]}

\* create_engine, then df.to_sql(..., if_exists='replace'), each in a try
\* that logs and re-raises; dispose says whether a finally disposes the engine
BronzeWrite(s, dispose) ==
    \E made \in create_engine("pg", env) :
        IF made = "error"
        THEN /\ Raise(s, "Exception", "create_engine", TRUE)
             /\ UNCHANGED <<table, engines, wrote, unsafe>>
        ELSE /\ unsafe' = IF all(PgSettings, env) THEN unsafe ELSE unsafe \cup {"pg"}
             /\ engines' = IF dispose THEN engines ELSE engines \cup {"pg"}
             /\ wrote' = TRUE
             /\ \E result \in {"written", "error"} :
                    IF result = "written"
                    THEN /\ table' = to_sql_replace(table, df)
                         /\ Return(s)
                    ELSE /\ table' \in AfterFailedReplace(table, df)
                         /\ Raise(s, "Exception", "to_sql", TRUE)

\* ------------------------------------------------------------ teams job
TeamsPull ==
    /\ At("teams", "pull_data_from_api")
    /\ \E response \in Responses :
        IF response = "RequestException"
        THEN Raise("pull_data_from_api", "RequestException", "requests.get", TRUE) /\ UNCHANGED raw
        ELSE LET r == SeasonDates(api)
             IN IF r.ok THEN raw' = r.value /\ Return("pull_data_from_api")
                ELSE Raise("pull_data_from_api", r.exc, "body", r.logged) /\ UNCHANGED raw
    /\ UNCHANGED <<job, api, table, env, df, engines, wrote, unsafe, preTable, prevOk>>

TeamsCreate ==
    /\ At("teams", "create_data_frame")
    /\ LET r == teams_create_data_frame(raw)
       IN IF r.ok THEN df' = r.value /\ Return("create_data_frame")
          ELSE Raise("create_data_frame", r.exc, "body", r.logged) /\ UNCHANGED df
    /\ UNCHANGED <<job, api, table, env, raw, engines, wrote, unsafe, preTable, prevOk>>

TeamsAddPhotoUrl ==
    /\ At("teams", "add_photo_url")
    /\ df' = add_photo_url(df).value
    /\ Return("add_photo_url")
    /\ UNCHANGED <<job, api, table, env, raw, engines, wrote, unsafe, preTable, prevOk>>

\* the settings check, then the empty check, each a bare raise outside a try
TeamsUpload ==
    /\ At("teams", "upload_to_postgres")
    /\ IF ~all(PgSettings, env)
       THEN /\ Raise("upload_to_postgres", "ValueError", "settings_check", FALSE)
            /\ UNCHANGED <<table, engines, wrote, unsafe>>
       ELSE IF Empty(df)
       THEN /\ Raise("upload_to_postgres", "ValueError", "empty_check", FALSE)
            /\ UNCHANGED <<table, engines, wrote, unsafe>>
       ELSE BronzeWrite("upload_to_postgres", FALSE)
    /\ UNCHANGED <<job, api, env, raw, df, preTable, prevOk>>

\* ---------------------------------------------------------- players job
PlayersPull ==
    /\ At("players", "pull_data_from_api")
    /\ \E response \in Responses :
        IF response = "RequestException"
        THEN Raise("pull_data_from_api", "RequestException", "requests.get", TRUE) /\ UNCHANGED raw
        ELSE LET r == SeasonDates(api)
             IN IF r.ok THEN raw' = r.value /\ Return("pull_data_from_api")
                ELSE Raise("pull_data_from_api", r.exc, "body", r.logged) /\ UNCHANGED raw
    /\ UNCHANGED <<job, api, table, env, df, engines, wrote, unsafe, preTable, prevOk>>

PlayersCreate ==
    /\ At("players", "create_data_frame")
    /\ LET r == players_create_data_frame(raw)
       IN IF r.ok THEN df' = r.value /\ Return("create_data_frame")
          ELSE Raise("create_data_frame", r.exc, "body", r.logged) /\ UNCHANGED df
    /\ UNCHANGED <<job, api, table, env, raw, engines, wrote, unsafe, preTable, prevOk>>

PlayersAddImage ==
    /\ At("players", "add_player_image")
    /\ LET r == add_player_image(df)
       IN IF r.ok THEN df' = r.value /\ Return("add_player_image")
          ELSE Raise("add_player_image", r.exc, "body", r.logged) /\ UNCHANGED df
    /\ UNCHANGED <<job, api, table, env, raw, engines, wrote, unsafe, preTable, prevOk>>

\* no check of the settings: an unset one reaches the URL as the text "None"
PlayersUpload ==
    /\ At("players", "upload_to_postgres")
    /\ IF Empty(df)
       THEN /\ Raise("upload_to_postgres", "ValueError", "empty_check", FALSE)
            /\ UNCHANGED <<table, engines, wrote, unsafe>>
       ELSE BronzeWrite("upload_to_postgres", FALSE)
    /\ UNCHANGED <<job, api, env, raw, df, preTable, prevOk>>

\* --------------------------------------------------------- fixtures job
FixturesPull ==
    /\ At("fixtures", "pull_data_from_api")
    /\ \E response \in Responses :
        IF response = "RequestException"
        THEN Raise("pull_data_from_api", "RequestException", "requests.get", TRUE) /\ UNCHANGED raw
        ELSE raw' = api /\ Return("pull_data_from_api")
    /\ UNCHANGED <<job, api, table, env, df, engines, wrote, unsafe, preTable, prevOk>>

FixturesCreate ==
    /\ At("fixtures", "create_data_frame")
    /\ LET r == fixtures_create_data_frame(raw)
       IN IF r.ok THEN df' = r.value /\ Return("create_data_frame")
          ELSE Raise("create_data_frame", r.exc, "body", r.logged) /\ UNCHANGED df
    /\ UNCHANGED <<job, api, table, env, raw, engines, wrote, unsafe, preTable, prevOk>>

\* no check of the settings here either
FixturesUpload ==
    /\ At("fixtures", "upload_to_postgres")
    /\ IF Empty(df)
       THEN /\ Raise("upload_to_postgres", "ValueError", "empty_check", FALSE)
            /\ UNCHANGED <<table, engines, wrote, unsafe>>
       ELSE BronzeWrite("upload_to_postgres", FALSE)
    /\ UNCHANGED <<job, api, env, raw, df, preTable, prevOk>>

\* ------------------------------------------------------------ stats job
StatsPull ==
    /\ At("stats", "pull_data_from_api")
    /\ \E response \in Responses :
        IF response = "RequestException"
        THEN Raise("pull_data_from_api", "RequestException", "requests.get", TRUE) /\ UNCHANGED raw
        ELSE raw' = api /\ Return("pull_data_from_api")
    /\ UNCHANGED <<job, api, table, env, df, engines, wrote, unsafe, preTable, prevOk>>

StatsJoin ==
    /\ At("stats", "join_dataframes")
    /\ LET r == join_dataframes(raw)
       IN IF r.ok THEN df' = r.value /\ Return("join_dataframes")
          ELSE Raise("join_dataframes", r.exc, "body", r.logged) /\ UNCHANGED df
    /\ UNCHANGED <<job, api, table, env, raw, engines, wrote, unsafe, preTable, prevOk>>

\* StatsUpload as the other bronze loaders treat an empty frame: an error
StatsUploadRaisesOnEmpty ==
    /\ At("stats", "upload_to_postgres")
    /\ IF ~all(PgSettings, env)
       THEN /\ Raise("upload_to_postgres", "ValueError", "settings_check", FALSE)
            /\ UNCHANGED <<table, engines, wrote, unsafe>>
       ELSE IF Empty(df)
       THEN /\ Raise("upload_to_postgres", "ValueError", "empty_check", FALSE)
            /\ UNCHANGED <<table, engines, wrote, unsafe>>
       ELSE BronzeWrite("upload_to_postgres", TRUE)
    /\ UNCHANGED <<job, api, env, raw, df, preTable, prevOk>>

\* settings checked first; an empty frame is skipped with a warning; the
\* engine is disposed in a finally
StatsUpload ==
    /\ At("stats", "upload_to_postgres")
    /\ IF ~all(PgSettings, env)
       THEN /\ Raise("upload_to_postgres", "ValueError", "settings_check", FALSE)
            /\ UNCHANGED <<table, engines, wrote, unsafe>>
       ELSE IF Empty(df)
       THEN /\ Return("upload_to_postgres")
            /\ UNCHANGED <<table, engines, wrote, unsafe>>
       ELSE BronzeWrite("upload_to_postgres", TRUE)
    /\ UNCHANGED <<job, api, env, raw, df, preTable, prevOk>>

\* ------------------------------------------------------ replication job
\* the whole body is in one try that logs and re-raises; engine.dispose()
\* is reached only when read_sql_query returned
ReplFetch ==
    /\ At("replication", "fetch_data_from_postgres")
    /\ IF ~all(PgSettings, env)
       THEN /\ Raise("fetch_data_from_postgres", "ValueError", "settings_check", TRUE)
            /\ UNCHANGED <<df, engines, unsafe>>
       ELSE \E made \in create_engine("pg", env) :
              IF made = "error"
              THEN /\ Raise("fetch_data_from_postgres", "Exception", "create_engine", TRUE)
                   /\ UNCHANGED <<df, engines, unsafe>>
              ELSE \E result \in {"read", "error"} :
                     IF result = "read"
                     THEN /\ df' = read_sql_query(api)
                          /\ Return("fetch_data_from_postgres")
                          /\ UNCHANGED <<engines, unsafe>>
                     ELSE /\ engines' = engines \cup {"pg"}
                          /\ Raise("fetch_data_from_postgres", "Exception", "read_sql_query", TRUE)
                          /\ UNCHANGED <<df, unsafe>>
    /\ UNCHANGED <<job, api, table, env, raw, wrote, preTable, prevOk>>

\* load_check without the empty-frame check
load_check_settings_only(e, frame) ==
    IF ~all(MySettings, e) THEN "settings_check" ELSE "pass"

\* the two raise statements that precede create_engine in load_data_to_mysql,
\* in their order: "Missing MySQL connection parameters", then "DataFrame is
\* empty. Nothing to load into MySQL."; "pass" when neither fires
load_check(e, frame) ==
    IF ~all(MySettings, e) THEN "settings_check"
    ELSE IF Empty(frame) THEN "empty_check"
    ELSE "pass"

\* AfterFailedInsert with TRUNCATE and the insert in one rolled-back transaction
AfterFailedInsertRolledBack(tbl, rows, k) == tbl

\* the table after to_sql(if_exists='append') failed having inserted k rows
AfterFailedInsert(tbl, rows, k) == to_sql_append(truncate(tbl), SubSeq(rows, 1, k))

\* settings check, empty check, create_engine, TRUNCATE in its own
\* connection, to_sql append, dispose: all in one try that logs and re-raises
ReplLoad ==
    /\ At("replication", "load_data_to_mysql")
    /\ IF load_check(env, df) # "pass"
       THEN /\ Raise("load_data_to_mysql", "ValueError", load_check(env, df), TRUE)
            /\ UNCHANGED <<table, engines, wrote>>
       ELSE \E made \in create_engine("mysql", env) :
              IF made = "error"
              THEN /\ Raise("load_data_to_mysql", "Exception", "create_engine", TRUE)
                   /\ UNCHANGED <<table, engines, wrote>>
              ELSE /\ wrote' = TRUE
                   /\ \E result \in {"truncate_error", "insert_error", "loaded"} :
                        CASE result = "truncate_error" ->
                               /\ table' = table
                               /\ engines' = engines \cup {"mysql"}
                               /\ Raise("load_data_to_mysql", "Exception", "TRUNCATE", TRUE)
                          [] result = "insert_error" ->
                               /\ \E k \in 0..(Len(df.rows) - 1) :
                                      table' = AfterFailedInsert(table, df.rows, k)
                               /\ engines' = engines \cup {"mysql"}
                               /\ Raise("load_data_to_mysql", "Exception", "to_sql", TRUE)
                          [] result = "loaded" ->
                               /\ table' = to_sql_append(truncate(table), df.rows)
                               /\ engines' = engines
                               /\ Return("load_data_to_mysql")
    /\ UNCHANGED <<job, api, env, raw, df, unsafe, preTable, prevOk>>

Next ==
    \/ StartRun
    \/ TeamsPull \/ TeamsCreate \/ TeamsAddPhotoUrl \/ TeamsUpload
    \/ PlayersPull \/ PlayersCreate \/ PlayersAddImage \/ PlayersUpload
    \/ FixturesPull \/ FixturesCreate \/ FixturesUpload
    \/ StatsPull \/ StatsJoin \/ StatsUpload
    \/ ReplFetch \/ ReplLoad

Spec == Init /\ [][Next]_vars

\* ================================================================ claims
\* the last stage called, and whether the run got past the first n stages
LastStage == IF executed = <<>> THEN "none" ELSE executed[Len(executed)]
Passed(n) == Len(executed) > n \/ (Len(executed) = n /\ pc # "failed")

\* C1: in every job's load stage (and both stages of the replication job)
\* every engine that was acquired is released before the stage returns or
\* raises: between stages and after the run no undisposed engine is left.
C1_EnginesReleased == engines = {}

\* C2: no engine is created for, and no database call is made on, a store
\* one of whose five settings is missing.
C2_NoCallOnIncompleteConfig == unsafe = {}

\* all ten catalogue statistics yield no rows for the fetched fixture list
NoStatRows(data) == \A i \in DOMAIN stats_list : ExtractedDetails(data, stats_list[i]) = <<>>

\* C3 (as stated): in the stats job, a non-empty fixture list whose every
\* catalogue statistic yields no rows makes join_dataframes return an empty
\* table without raising, and upload_to_postgres given that table returns
\* normally, without raising and without any write to bronze.player_stats.
C3_EmptyAggregateAlwaysSkips ==
    (job = "stats" /\ Len(executed) >= 2 /\ raw # <<>> /\ NoStatRows(raw)) =>
        /\ Passed(2) /\ df = EmptyFrame
        /\ Len(executed) = 3 => (pc = "done" /\ ~wrote /\ table = preTable)

\* C3 (amended): ... upload_to_postgres given that table never writes and
\* leaves bronze.player_stats unchanged; it returns normally exactly when
\* all five settings are set, and otherwise raises the missing-settings
\* ValueError (the settings check precedes the empty-table skip).
C3_EmptyAggregateSkipsWhenConfigured ==
    (job = "stats" /\ Len(executed) >= 2 /\ raw # <<>> /\ NoStatRows(raw)) =>
        /\ Passed(2) /\ df = EmptyFrame
        /\ Len(executed) = 3 =>
             /\ ~wrote /\ table = preTable /\ engines = {}
             /\ all(PgSettings, env) => pc = "done"
             /\ ~all(PgSettings, env) =>
                  (pc = "failed" /\ failure = [exc |-> "ValueError", at |-> "settings_check"])

\* C3 witness: a run of the stats job over a non-empty fixture list without
\* statistic rows ended in success with the older table untouched.
C3_Witness ==
    /\ job = "stats" /\ pc = "done" /\ Len(raw) >= 2 /\ NoStatRows(raw)
    /\ df = EmptyFrame /\ table = LegacyTable /\ ~wrote

\* C4 (as stated): in the replication job, when the gold view returns zero
\* rows, load_data_to_mysql does not fail: it truncates FctTeamHistory,
\* inserts nothing and completes, leaving the table empty.
C4_EmptySourceTruncates ==
    (job = "replication" /\ LastStage = "load_data_to_mysql"
       /\ all(MySettings, env) /\ df.rows = <<>>) =>
        (pc = "done" /\ table.rows = <<>>)

\* C4 (amended): when the gold view returns zero rows, load_data_to_mysql
\* fails: it logs and raises a ValueError before creating an engine or
\* truncating, so the job ends in failure and FctTeamHistory keeps the rows
\* it held before the run.  With all five MySQL settings set the error is
\* the empty-frame one ("DataFrame is empty. Nothing to load into MySQL.");
\* with one unset it is the settings one ("Missing MySQL connection
\* parameters"), whose check comes first.
C4_EmptySourceFails ==
    (job = "replication" /\ LastStage = "load_data_to_mysql" /\ df.rows = <<>>) =>
        /\ pc = "failed" /\ failure.exc = "ValueError" /\ logged
        /\ all(MySettings, env) => failure.at = "empty_check"
        /\ ~all(MySettings, env) => failure.at = "settings_check"
        /\ ~wrote /\ table = preTable /\ engines = {}

\* C4 witness: with every setting present, an empty view made the load fail
\* on the empty-frame check and a table holding an old row still holds it.
C4_Witness ==
    /\ job = "replication" /\ LastStage = "load_data_to_mysql" /\ api = <<>>
    /\ env = AllSettings("replication") /\ pc = "failed"
    /\ failure = [exc |-> "ValueError", at |-> "empty_check"]
    /\ table.rows = <<OldFact>>

\* the catalogue as a set, and the entries of the catalogue statistics in a
\* fixture list: <<fixture, block, side, position>>
Catalogue == {stats_list[i] : i \in DOMAIN stats_list}
BlocksOf(fixture) == IF "stats" \in DOMAIN fixture THEN fixture.stats ELSE <<>>
SideOf(block, side) == IF side \in DOMAIN block THEN block[side] ELSE <<>>
SourceEntries(data) ==
    UNION {UNION {UNION {{<<f, b, side, k>> : k \in DOMAIN SideOf(BlocksOf(data[f])[b], side)} :
                           side \in {"a", "h"}} :
                  b \in {b \in DOMAIN BlocksOf(data[f]) :
                           BlocksOf(data[f])[b].identifier \in Catalogue}} :
           f \in DOMAIN data}

\* side, statistic, player and value of a source entry / of an emitted row
EntryFacts(data, t) ==
    LET block == BlocksOf(data[t[1]])[t[2]]
    IN <<t[3], block.identifier, block[t[3]][t[4]].element, block[t[3]][t[4]].value>>
RowFacts(r) == <<r.team_type, r.stat_type, r.player_id, r.stat_value>>

\* C5: the stats aggregator emits as many rows as there are entries, over all
\* fixtures, catalogue statistics and both sides (a fixture without stats, an
\* absent statistic and an empty side add none), and the rows carry the side,
\* statistic name, player and value of the source entries, one row per entry.
C5_RowPerEntry ==
    (job = "stats" /\ Len(executed) >= 2 /\ Passed(2)) =>
        LET entries == SourceEntries(raw)
            facts == {EntryFacts(raw, t) : t \in entries}
                       \cup {RowFacts(df.rows[i]) : i \in DOMAIN df.rows}
        IN /\ Len(df.rows) = Cardinality(entries)
           /\ \A v \in facts :
                 Cardinality({i \in DOMAIN df.rows : RowFacts(df.rows[i]) = v})
                   = Cardinality({t \in entries : EntryFacts(raw, t) = v})

\* C5 witness: the aggregator emitted four or more rows, of both sides and of
\* two statistics, from a list that also holds a fixture without stats.
C5_Witness ==
    /\ job = "stats" /\ Len(executed) >= 2 /\ Passed(2) /\ Len(df.rows) >= 4
    /\ \E i, j \in DOMAIN df.rows :
          /\ df.rows[i].team_type = "a" /\ df.rows[j].team_type = "h"
          /\ df.rows[i].stat_type = "bps" /\ df.rows[j].stat_type = "goals_scored"
    /\ \E f \in DOMAIN raw : "stats" \notin DOMAIN raw[f]

BronzeJobs == {"teams", "players", "fixtures", "stats"}

\* C6: a bronze job's load that writes leaves the destination table equal to
\* the frame it was given, whatever the table held; and a run that succeeds
\* right after a successful run against the same API response leaves the
\* table exactly as that first run left it.
C6_Idempotent ==
    [][(job \in BronzeJobs /\ pc = "running" /\ pc' = "done") =>
          /\ wrote' => table' = df
          /\ prevOk => table' = table]_vars

\* C6 witness: the teams job succeeded twice in a row and the table holds the
\* two rows of the response, as it did before the second run.
C6_Witness ==
    /\ job = "teams" /\ pc = "done" /\ prevOk /\ wrote
    /\ Len(table.rows) = 2 /\ table = preTable /\ table = df

\* the non-null deadline_time values of the response's events
NonNullDeadlines ==
    {api.events[i].deadline_time : i \in DOMAIN api.events} \ {None}
IsMinDeadline(v) == v \in NonNullDeadlines /\ \A d \in NonNullDeadlines : v <= d
IsMaxDeadline(v) == v \in NonNullDeadlines /\ \A d \in NonNullDeadlines : d <= v

\* C7: every row of the teams job's output has logo_url = badge base URL +
\* team_code + ".png", except that a row named Liverpool has the fixed
\* Wikimedia URL whatever its code; every row of the players job's output has
\* photo_url = photo base URL + player_code + ".png"; every row carries the
\* min and max non-null event deadline_time as min_kickoff and max_kickoff.
C7_DerivedColumns ==
    /\ (job = "teams" /\ Len(executed) >= 3) =>
          \A i \in DOMAIN df.rows :
             LET r == df.rows[i] IN
             /\ r.logo_url =
                  IF r.team_name = "Liverpool"
                  THEN "https://upload.wikimedia.org/wikipedia/en/thumb/0/0c/Liverpool_FC.svg/180px-Liverpool_FC.svg.png"
                  ELSE "https://resources.premierleague.com/premierleague/badges/t"
                         \o ToString(r.team_code) \o ".png"
             /\ IsMinDeadline(r.min_kickoff) /\ IsMaxDeadline(r.max_kickoff)
    /\ (job = "players" /\ Len(executed) >= 3 /\ Passed(3)) =>
          \A i \in DOMAIN df.rows :
             LET r == df.rows[i] IN
             /\ r.photo_url =
                  "https://resources.premierleague.com/premierleague/photos/players/250x250/p"
                    \o ToString(r.player_code) \o ".png"
             /\ IsMinDeadline(r.min_kickoff) /\ IsMaxDeadline(r.max_kickoff)

\* C7 witness: the teams job's output holds Liverpool and Arsenal under the
\* same code 3, with the season bounds of deadlines given out of order.
C7_Witness ==
    /\ job = "teams" /\ Len(executed) >= 3 /\ Len(df.rows) = 2
    /\ df.rows[1].team_name = "Liverpool" /\ df.rows[1].team_code = 3
    /\ df.rows[2].team_name = "Arsenal" /\ df.rows[2].team_code = 3
    /\ df.rows[1].min_kickoff = 1 /\ df.rows[1].max_kickoff = 10
    /\ api.events[1].deadline_time = 10

\* control is just behind create_data_frame of job j, which returned
AfterCreate(j) == job = j /\ Len(executed) = 2 /\ pc = "running"

\* the column sets of the three transformers' tables
TableColumns(j) ==
    CASE j = "teams"    -> {"team_id", "team_code", "team_name", "team_short_name",
                            "min_kickoff", "max_kickoff"}
      [] j = "players"  -> {"player_id", "first_name", "second_name", "web_name",
                            "team_code", "team_id", "player_position", "player_code",
                            "region", "can_select", "min_kickoff", "max_kickoff"}
      [] j = "fixtures" -> {"game_code", "game_week_id", "finished", "game_id",
                            "kickoff_time", "team_id_a", "team_id_h", "team_a_score",
                            "team_h_score", "difficulty_a", "difficulty_h"}

\* the field names of the payload items a transformer reads
SourceFields(j) ==
    CASE j = "teams"    -> UNION {DOMAIN t : t \in TeamItems}
      [] j = "players"  -> UNION {DOMAIN t : t \in ElementItems}
      [] j = "fixtures" -> UNION {DOMAIN t : t \in FixtureItems}

\* the selected source fields the transformers leave under their source name
KeptNames(j) ==
    CASE j = "teams"    -> {}
      [] j = "players"  -> {"first_name", "second_name", "web_name", "team_code",
                            "region", "can_select"}
      [] j = "fixtures" -> {"finished", "kickoff_time", "team_a_score", "team_h_score"}

Transformers == {"teams", "players", "fixtures"}

\* C8 (as stated): the table create_data_frame produces has exactly the fixed
\* column set, and none of its column names is a source field name.
C8_NoSourceNames ==
    \A j \in Transformers :
        AfterCreate(j) =>
            /\ df.cols = TableColumns(j)
            /\ df.cols \cap SourceFields(j) = {}

\* C8 (amended): the table create_data_frame produces has exactly the fixed
\* column set, in every row; the source fields in the job's rename mapping
\* appear only under their canonical names, and the selected fields outside
\* the mapping (players: first_name, second_name, web_name, team_code, region,
\* can_select; fixtures: finished, kickoff_time, team_a_score, team_h_score)
\* keep their source names.
C8_FixedColumns ==
    \A j \in Transformers :
        AfterCreate(j) =>
            /\ df.cols = TableColumns(j)
            /\ \A i \in DOMAIN df.rows : DOMAIN df.rows[i] = TableColumns(j)
            /\ df.cols \cap SourceFields(j) = KeptNames(j)

\* C8 witness: the players transformer returned a table of two rows.
C8_Witness == AfterCreate("players") /\ Len(df.rows) = 2 /\ "first_name" \in df.cols

IsPrefix(a, b) == Len(a) <= Len(b) /\ \A i \in DOMAIN a : a[i] = b[i]

\* what C9 says of every state of a run
C9_State ==
    /\ IsPrefix(executed, main(job))
    /\ (failure # NoFailure) <=> (pc = "failed")
    /\ pc = "done" => executed = main(job)
    /\ wrote => Len(executed) = Len(main(job))
    /\ (pc = "failed" /\ Len(executed) < Len(main(job))) => (~wrote /\ table = preTable)

\* what C9 says of every step: a running job calls its next stage, once; an
\* ended job does nothing more (the only step is a new run of the script)
C9_Step ==
    /\ pc = "running" => executed' = Append(executed, main(job)[Len(executed) + 1])
    /\ pc \in {"done", "failed"} =>
          (pc' = "running" /\ executed' = <<>> /\ table' = table)

\* C9: in every job the stages run strictly in order, each at most once; a
\* failing stage ends the job in failure, no later stage runs and none is
\* retried; the destination is never written in a run whose fetch or
\* transform failed; a run that ends in success has executed every stage.
C9_SequentialStages == []C9_State /\ [][C9_Step]_vars

\* C9 witness: the players job failed in its transformer, after the fetch,
\* and wrote nothing.
C9_Witness ==
    /\ job = "players" /\ pc = "failed" /\ ~wrote
    /\ executed = <<"pull_data_from_api", "create_data_frame">>

\* C10: in load_data_to_mysql the truncate and the insert are separate steps
\* without rollback: when the insert fails after the truncate, the job ends
\* in failure (logged, re-raised) and FctTeamHistory holds none or only some
\* of the incoming rows; what it held before the run is gone.
C10_NoRollback ==
    (job = "replication" /\ LastStage = "load_data_to_mysql" /\ failure.at = "to_sql") =>
        /\ pc = "failed" /\ logged /\ wrote
        /\ \E k \in 0..(Len(df.rows) - 1) : table.rows = SubSeq(df.rows, 1, k)

\* C10 witness: the insert failed after one of two rows; the table held an
\* old row before the run and now holds only the first incoming row.
C10_Witness ==
    /\ job = "replication" /\ pc = "failed" /\ failure.at = "to_sql"
    /\ preTable.rows = <<OldFact>> /\ Len(df.rows) = 2
    /\ table.rows = <<df.rows[1]>>

\* C11: in every job, every failure of a stage (request error, missing or
\* empty payload, missing deadline dates, missing configuration, empty table,
\* write failure) is preceded by an error log message of that same stage, and
\* the error is re-raised, never swallowed: a stage that raised has ended the
\* run in failure, and a run that failed has logged the error.
C11_FailuresLogged ==
    /\ failure # NoFailure => pc = "failed"
    /\ pc = "failed" => logged

====
